---------------------------- MODULE Spec2Model ----------------------------
(***************************************************************************)
(* Model of the solar-system simulator (src/src/orbitor.rs, src/src/main.rs)*)
(*                                                                         *)
(* Numbers.  The program computes in f64.  The model computes in fixed     *)
(* point: every real quantity (angle in radians, eccentricity, sine,       *)
(* cosine, time in seconds, length) is the integer nearest to 1000 times   *)
(* its value (FP), products and quotients are rescaled by FP and rounded   *)
(* towards zero.  Masses and semi-major axes are whole numbers of a coarse *)
(* unit chosen so that G is 1 and a^3 fits in 32 bits.  Absolute positions *)
(* carry PosRes extra binary digits so that the division by the scaling    *)
(* factor is exact, as it is (to 1 ulp) in f64.  Angles in degrees are     *)
(* whole degrees.                                                          *)
(***************************************************************************)
EXTENDS Integers, Sequences, FiniteSets, TLC

VARIABLES bodies,    \* arena of constructed SolarSystemObject values
          objects,   \* SolarSystem.objects: Vec of references (arena ids)
          index,     \* SolarSystem.index: HashMap name -> reference
          res        \* the value returned by the last call

vars == <<bodies, objects, index, res>>

-----------------------------------------------------------------------------
(* Program constants, in model units *)

FP == 10 * 100

\* std::f64::consts::TAU = 6.283185..., in fixed point
TAU == 6283

\* const G, in the model's mass and length units
G == 1

\* const SCALING_FACTOR, in the model's length units
SCALING_FACTOR == 2

PosRes == 2 * SCALING_FACTOR

-----------------------------------------------------------------------------
(* f64 arithmetic in fixed point *)

Abs(x) == IF x < 0 THEN -x ELSE x

\* quotient rounded towards zero
TDiv(a, b) ==
    IF (a >= 0) = (b > 0) THEN Abs(a) \div Abs(b) ELSE -(Abs(a) \div Abs(b))

\* a * b and a / b of two fixed-point values
Mul(a, b) == TDiv(a * b, FP)

Div(a, b) == TDiv(a * FP, b)

\* f64 `%`: the remainder has the sign of the dividend
Fmod(x, y) == IF x >= 0 THEN x % y ELSE -((-x) % y)

RECURSIVE SqrtSearch(_, _, _)
SqrtSearch(n, lo, hi) ==
    IF lo >= hi THEN lo
    ELSE LET mid == (lo + hi + 1) \div 2
         IN IF mid * mid <= n THEN SqrtSearch(n, mid, hi)
                              ELSE SqrtSearch(n, lo, mid - 1)

\* floor of the square root of a whole number
ISqrt(n) == SqrtSearch(n, 0, IF n < 46340 THEN n ELSE 46340)

\* f64::sqrt of a fixed-point value
Sqrt(v) == ISqrt(v * FP)

\* sine on [0, pi] (Bhaskara's rational approximation, exact at 0, pi/2, pi)
SinHalfTurn(x) ==
    LET PI == TAU \div 2
        p  == x * (PI - x)
        d  == (5 * PI * PI - 4 * p) \div 64
    IN  (FP * (p \div 4)) \div d

\* f64::sin
Sin(x) ==
    LET PI == TAU \div 2
        r  == x % TAU
    IN  IF r <= PI THEN SinHalfTurn(r) ELSE -SinHalfTurn(r - PI)

\* f64::cos
Cos(x) == Sin(x + TAU \div 4)

\* arctangent of min/max on the first octant
AtanOctant(mn, mx) ==
    LET r == (FP * mn) \div mx
    IN  (785 * r + (273 * r * (FP - r)) \div FP) \div FP

\* arctangent of ay/ax on the first quadrant
AtanQuadrant(ay, ax) ==
    IF ax = 0 /\ ay = 0 THEN 0
    ELSE IF ay <= ax THEN AtanOctant(ay, ax)
    ELSE (TAU \div 2) \div 2 - AtanOctant(ax, ay)

\* the first-quadrant angle a0 carried to the quadrant of (x, y)
ToQuadrant(a0, y, x) ==
    IF x < 0 THEN (IF y < 0 THEN -(TAU \div 2 - a0) ELSE TAU \div 2 - a0)
    ELSE (IF y < 0 THEN -a0 ELSE a0)

\* f64::atan2(y, x), in [-pi, pi]
Atan2(y, x) == ToQuadrant(AtanQuadrant(Abs(y), Abs(x)), y, x)

deg_to_rad(x) == TDiv(x * TAU, 360)

rad_to_deg(x) == TDiv(x * 360, TAU)

-----------------------------------------------------------------------------
(* Option<T> *)

None == <<>>

Some(v) == <<v>>

IsSome(opt) == opt # None

\* Option::unwrap: the value, or a panic
Unwrap(opt) == IF IsSome(opt) THEN opt[1] ELSE "panic"

-----------------------------------------------------------------------------
(* Point2D, Point3D *)

Point2D(x, y) == <<x, y>>

Point3D(x, y, z) == <<x, y, z>>

\* impl Add / Sub for Point2D and Point3D
PointAdd(p, q) == [i \in DOMAIN p |-> p[i] + q[i]]

PointSub(p, q) == [i \in DOMAIN p |-> p[i] - q[i]]

-----------------------------------------------------------------------------
(* StaticObject, Orbitor, SolarSystemObject *)

StaticObject_new(mass, x, y, z) == [mass |-> mass, x |-> x, y |-> y, z |-> z]

\* Orbitor::new stores its arguments as given; parent is an arena id
Orbitor_new(mass, parent, semimajor, eccentricity, inclination, lan, aop, mae) ==
    [mass |-> mass, parent |-> parent, semimajor |-> semimajor,
     eccentricity |-> eccentricity, inclination |-> inclination,
     lan |-> lan, aop |-> aop, mae |-> mae]

new_static(name, mass, x, y, z) ==
    [kind |-> "Static", name |-> name, s |-> StaticObject_new(mass, x, y, z)]

new_orbitor(name, mass, parent, semimajor, eccentricity, inclination, lan, aop, mae) ==
    [kind |-> "Orbit", name |-> name,
     o |-> Orbitor_new(mass, parent, semimajor, eccentricity,
                       deg_to_rad(inclination), deg_to_rad(lan),
                       deg_to_rad(aop), deg_to_rad(mae))]

\* The element function of a Variable body is a closure over its captured
\* values; the closures the model draws are those of the shape of moon_loc:
\* fixed elements with the node and the periapsis drifting linearly in time.
new_variable(name, function) ==
    [kind |-> "Variable", name |-> name, f |-> function]

\* calling the closure f at `time`
CallF(f, time) ==
    Orbitor_new(f.mass, f.parent, f.semimajor + TDiv(Mul(time, f.semimajorRate), FP),
                f.eccentricity, f.inclination,
                f.lan - Mul(time, f.lanRate), f.aop + Mul(time, f.aopRate), f.mae)

get_name(b) == b.name

get_mass(b) ==
    CASE b.kind = "Static"   -> b.s.mass
      [] b.kind = "Orbit"    -> b.o.mass
      [] b.kind = "Variable" -> CallF(b.f, 0).mass

-----------------------------------------------------------------------------
(* Orbital period *)

\* sqrt(mu / a^3), the mean motion in rad/s; a = 0 gives +inf in f64
MeanMotion(mu, semimajor) ==
    ISqrt((mu * FP * FP) \div (semimajor * semimajor * semimajor))

\* OwnPeriod with mu taken from the body's own mass alone
OwnPeriod_SelfMassOnly(bs, o) ==
    IF o.semimajor = 0 THEN 0 ELSE Div(TAU, MeanMotion(G * o.mass, o.semimajor))

\* the None arm of Orbitor::orbital_period; TAU / +inf is 0 in f64
OwnPeriod(bs, o) ==
    LET mu == G * (o.mass + get_mass(bs[o.parent]))
    IN  IF o.semimajor = 0 THEN 0 ELSE Div(TAU, MeanMotion(mu, o.semimajor))

RECURSIVE orbital_period(_, _, _)

\* match opt { Some(v) => v, None => dflt }
OrElse(opt, dflt) == IF IsSome(opt) THEN opt[1] ELSE dflt

\* Orbitor::orbital_period returning the instant one period after `time`
Orbitor_orbital_period_FromQueryTime(bs, o, time) ==
    OrElse(orbital_period(bs, o.parent, time), OwnPeriod(bs, o)) + time

Orbitor_orbital_period(bs, o, time) ==
    OrElse(orbital_period(bs, o.parent, time), OwnPeriod(bs, o))

\* orbital_period with the Variable arm answering None
orbital_period_NoneForVariable(bs, id, start_time) ==
    LET b == bs[id]
    IN  CASE b.kind = "Orbit"    -> Some(Orbitor_orbital_period(bs, b.o, start_time))
          [] b.kind = "Static"   -> None
          [] b.kind = "Variable" -> None

\* SolarSystemObject::orbital_period of the body with arena id `id`
orbital_period(bs, id, start_time) ==
    LET b == bs[id]
    IN  CASE b.kind = "Orbit"    -> Some(Orbitor_orbital_period(bs, b.o, start_time))
          [] b.kind = "Static"   -> None
          [] b.kind = "Variable" ->
                 Some(Orbitor_orbital_period(bs, CallF(b.f, start_time), start_time))

-----------------------------------------------------------------------------
(* Kepler solver *)

\* current_mean_anomaly without the time == 0.0 arm: mae is propagated and reduced
current_mean_anomaly_NoEpochArm(bs, o, time) ==
    IF o.semimajor = 0 THEN 0
    ELSE LET mu == G * (o.mass + get_mass(bs[o.parent]))
         IN  Fmod(o.mae + Mul(time, MeanMotion(mu, o.semimajor)), TAU)

\* current_mean_anomaly with the time == 0.0 arm tested before semimajor == 0.0
current_mean_anomaly_EpochArmFirst(bs, o, time) ==
    IF time = 0 THEN o.mae
    ELSE IF o.semimajor = 0 THEN 0
    ELSE LET mu == G * (o.mass + get_mass(bs[o.parent]))
         IN  Fmod(o.mae + Mul(time, MeanMotion(mu, o.semimajor)), TAU)

\* current_mean_anomaly reducing with rem_euclid in place of `%`
current_mean_anomaly_EuclideanRemainder(bs, o, time) ==
    IF o.semimajor = 0 THEN 0
    ELSE IF time = 0 THEN o.mae
    ELSE LET mu == G * (o.mass + get_mass(bs[o.parent]))
         IN  (o.mae + Mul(time, MeanMotion(mu, o.semimajor))) % TAU

current_mean_anomaly(bs, o, time) ==
    IF o.semimajor = 0 THEN 0
    ELSE IF time = 0 THEN o.mae
    ELSE LET mu == G * (o.mass + get_mass(bs[o.parent]))
         IN  Fmod(o.mae + Mul(time, MeanMotion(mu, o.semimajor)), TAU)

\* one Newton-Raphson update
NewtonStep(o, ecc, mean_anomaly) ==
    ecc - Div(ecc - Mul(o.eccentricity, Sin(ecc)) - mean_anomaly,
              FP - Mul(o.eccentricity, Cos(ecc)))

RECURSIVE NewtonIter(_, _, _, _)
NewtonIter(o, ecc, mean_anomaly, n) ==
    IF n = 0 THEN ecc
    ELSE NewtonIter(o, NewtonStep(o, ecc, mean_anomaly), mean_anomaly, n - 1)

\* eccentric_anomaly with the loop run for _ in 0..4
eccentric_anomaly_FourUpdates(o, mean_anomaly) == NewtonIter(o, mean_anomaly, mean_anomaly, 4)

eccentric_anomaly(o, mean_anomaly) == NewtonIter(o, mean_anomaly, mean_anomaly, 5)

true_anomaly(o, ecc_anom) ==
    LET left_term  == Mul(Sqrt(FP + o.eccentricity), Sin(TDiv(ecc_anom, 2)))
        right_term == Mul(Sqrt(FP - o.eccentricity), Cos(TDiv(ecc_anom, 2)))
    IN  2 * Atan2(left_term, right_term)

\* Point2D(radius * true_anom.cos(), radius * true_anom.sin())
Polar(radius, true_anom) ==
    Point2D(Mul(radius, Cos(true_anom)), Mul(radius, Sin(true_anom)))

\* the orbital-plane point of eccentric anomaly ecc_anom
OrbitPoint(o, ecc_anom) ==
    Polar(o.semimajor * (FP - Mul(o.eccentricity, Cos(ecc_anom))),
          true_anomaly(o, ecc_anom))

orbit_xy(bs, o, time) ==
    OrbitPoint(o, eccentric_anomaly(o, current_mean_anomaly(bs, o, time)))

in_parent_coordinates(o, orbit_loc) ==
    LET ox == orbit_loc[1]
        oy == orbit_loc[2]
        aopcos == Cos(o.aop)
        aopsin == Sin(o.aop)
        lancos == Cos(o.lan)
        lansin == Sin(o.lan)
        inccos == Cos(o.inclination)
        incsin == Sin(o.inclination)
        x == Mul(ox, Mul(aopcos, lancos) - Mul(Mul(aopsin, inccos), lansin))
             - Mul(oy, Mul(aopsin, lancos) + Mul(Mul(aopcos, inccos), lansin))
        y == Mul(ox, Mul(aopcos, lansin) + Mul(Mul(aopsin, inccos), lancos))
             + Mul(oy, Mul(Mul(aopcos, inccos), lancos) - Mul(aopsin, lansin))
        z == Mul(Mul(ox, aopsin), incsin) + Mul(Mul(oy, aopcos), incsin)
    IN  Point3D(x, z, y)

-----------------------------------------------------------------------------
(* impl Locatable.  `sf` is the value of SCALING_FACTOR the build uses. *)

\* a length as an absolute coordinate
Coord(len) == len * FP * PosRes

\* x2 / sf of a fixed-point offset, as an absolute coordinate
Scaled(x2, sf) == TDiv(x2 * PosRes, sf)

StaticObject_xyz(s, time) == Point3D(Coord(s.x), Coord(s.y), Coord(s.z))

StaticObject_xy(s, time) == Point2D(Coord(s.x), Coord(s.z))

RECURSIVE xyzS(_, _, _, _)

\* Point3D(x + x2 / SCALING_FACTOR, y + y2 / SCALING_FACTOR, z + z2 / SCALING_FACTOR)
AddScaled(p, q, sf) ==
    Point3D(p[1] + Scaled(q[1], sf), p[2] + Scaled(q[2], sf), p[3] + Scaled(q[3], sf))

\* Orbitor::xyz with the parent located at the epoch instead of at `time`
Orbitor_xyz_ParentAtEpoch(sf, bs, o, time) ==
    AddScaled(xyzS(sf, bs, o.parent, 0),
              in_parent_coordinates(o, orbit_xy(bs, o, time)), sf)

Orbitor_xyz(sf, bs, o, time) ==
    AddScaled(xyzS(sf, bs, o.parent, time),
              in_parent_coordinates(o, orbit_xy(bs, o, time)), sf)

\* let Point3D(x, _, z) = ...; Point2D(x, z)
Project(p) == Point2D(p[1], p[3])

Orbitor_xy(sf, bs, o, time) == Project(Orbitor_xyz(sf, bs, o, time))

\* impl Locatable for SolarSystemObject, built with scaling factor sf
xyzS(sf, bs, id, time) ==
    LET b == bs[id]
    IN  CASE b.kind = "Static"   -> StaticObject_xyz(b.s, time)
          [] b.kind = "Orbit"    -> Orbitor_xyz(sf, bs, b.o, time)
          [] b.kind = "Variable" -> Orbitor_xyz(sf, bs, CallF(b.f, time), time)

xyS(sf, bs, id, time) ==
    LET b == bs[id]
    IN  CASE b.kind = "Static"   -> StaticObject_xy(b.s, time)
          [] b.kind = "Orbit"    -> Orbitor_xy(sf, bs, b.o, time)
          [] b.kind = "Variable" -> Orbitor_xy(sf, bs, CallF(b.f, time), time)

\* the bearing left as atan2 returns it, in [-pi, pi]
Bearing_Unnormalized(p, q) == Atan2(p[2] - q[2], p[1] - q[1])

\* ((y - y2).atan2(x - x2) + TAU) % TAU
Bearing(p, q) == Fmod(Atan2(p[2] - q[2], p[1] - q[1]) + TAU, TAU)

angle_radS(sf, bs, self, other, time) ==
    Bearing(xyS(sf, bs, self, time), xyS(sf, bs, other, time))

angle_degS(sf, bs, self, other, time) ==
    rad_to_deg(angle_radS(sf, bs, self, other, time))

\* the program as built: SCALING_FACTOR is the constant of orbitor.rs
xyz(bs, id, time) == xyzS(SCALING_FACTOR, bs, id, time)

xy(bs, id, time) == xyS(SCALING_FACTOR, bs, id, time)

angle_rad(bs, self, other, time) == angle_radS(SCALING_FACTOR, bs, self, other, time)

angle_deg(bs, self, other, time) == angle_degS(SCALING_FACTOR, bs, self, other, time)

-----------------------------------------------------------------------------
(* Trajectories *)

\* sample_times with the range 0..num_points, the last instant left out
sample_times_Exclusive(time_range, start_time, num_points) ==
    [k \in 1..num_points |->
        TDiv((k - 1) * time_range, num_points) + start_time]

\* the instants (0..num_points+1).map(|x| x * time_range / num_points + start_time)
sample_times(time_range, start_time, num_points) ==
    [k \in 1..(num_points + 1) |->
        TDiv((k - 1) * time_range, num_points) + start_time]

\* A trajectory call returns its Vec, or panics in unwrap()
Returned(v) == [panic |-> FALSE, val |-> v]

Panicked == [panic |-> TRUE, val |-> <<>>]

\* the loop bodies: one point per sampled instant
Xys(bs, id, ts) == [k \in DOMAIN ts |-> xy(bs, id, ts[k])]

Xyzs(bs, id, ts) == [k \in DOMAIN ts |-> xyz(bs, id, ts[k])]

RelXys(bs, self, other, ts) ==
    [k \in DOMAIN ts |-> PointSub(xy(bs, self, ts[k]), xy(bs, other, ts[k]))]

RelXyzs(bs, self, other, ts) ==
    [k \in DOMAIN ts |-> PointSub(xyz(bs, self, ts[k]), xyz(bs, other, ts[k]))]

\* the non-Static arm of trajectory_2d; p is self.orbital_period(start_time)
Trajectory2dOver(bs, id, p, start_time, num_points) ==
    IF ~IsSome(p) THEN Panicked
    ELSE Returned(Xys(bs, id, sample_times(p[1], start_time, num_points)))

trajectory_2d(bs, id, start_time, num_points) ==
    IF bs[id].kind = "Static"
    THEN Returned(<<StaticObject_xy(bs[id].s, start_time)>>)
    ELSE Trajectory2dOver(bs, id, orbital_period(bs, id, start_time),
                          start_time, num_points)

\* the non-Static arm of trajectory_3d
Trajectory3dOver(bs, id, p, start_time, num_points) ==
    IF ~IsSome(p) THEN Panicked
    ELSE Returned(Xyzs(bs, id, sample_times(p[1], start_time, num_points)))

trajectory_3d(bs, id, start_time, num_points) ==
    IF bs[id].kind = "Static"
    THEN Returned(<<StaticObject_xyz(bs[id].s, 0)>>)
    ELSE Trajectory3dOver(bs, id, orbital_period(bs, id, start_time),
                          start_time, num_points)

Max(a, b) == IF a >= b THEN a ELSE b

\* the instants trajectory_relative_2d samples; tr is other's period and sp
\* self's (<<>> when the unwrap of sp panics)
Relative2dTimesOver(static, tr, sp, start_time, num_points) ==
    IF ~IsSome(tr) THEN <<start_time>>
    ELSE IF static THEN sample_times(tr[1], start_time, num_points)
    ELSE IF ~IsSome(sp) THEN <<>>
    ELSE sample_times(Max(tr[1], sp[1]), start_time, num_points)

relative_2d_times(bs, self, other, start_time, num_points) ==
    Relative2dTimesOver(bs[self].kind = "Static",
                        orbital_period(bs, other, start_time),
                        orbital_period(bs, self, start_time),
                        start_time, num_points)

Relative2dPanics(static, tr, sp) == ~static /\ IsSome(tr) /\ ~IsSome(sp)

trajectory_relative_2d(bs, self, other, start_time, num_points) ==
    IF Relative2dPanics(bs[self].kind = "Static",
                        orbital_period(bs, other, start_time),
                        orbital_period(bs, self, start_time))
    THEN Panicked
    ELSE Returned(RelXys(bs, self, other,
             relative_2d_times(bs, self, other, start_time, num_points)))

\* the instants trajectory_relative_3d samples; tr is other's period
Relative3dTimesOver(tr, start_time, num_points) ==
    IF ~IsSome(tr) THEN <<start_time>>
    ELSE sample_times(tr[1], start_time, num_points)

relative_3d_times(bs, self, other, start_time, num_points) ==
    Relative3dTimesOver(orbital_period(bs, other, start_time), start_time, num_points)

trajectory_relative_3d(bs, self, other, start_time, num_points) ==
    Returned(RelXyzs(bs, self, other,
        relative_3d_times(bs, self, other, start_time, num_points)))

-----------------------------------------------------------------------------
(* SolarSystem: the zodiac table and the registry *)

\* SolarSystem::new: the zodiac HashMap<i32, String>
zodiac ==
    [k \in {30 * i : i \in 0..11} |->
        CASE k = 0   -> "Aries"       [] k = 30  -> "Taurus"
          [] k = 60  -> "Gemini"      [] k = 90  -> "Cancer"
          [] k = 120 -> "Leo"         [] k = 150 -> "Virgo"
          [] k = 180 -> "Libra"       [] k = 210 -> "Scorpio"
          [] k = 240 -> "Sagittarius" [] k = 270 -> "Capricorn"
          [] k = 300 -> "Aquarius"    [] k = 330 -> "Pisces"]

\* HashMap::get
MapGet(m, k) == IF k \in DOMAIN m THEN Some(m[k]) ELSE None

\* HashMap insertion that keeps the value of a key already present
MapInsert_KeepFirst(m, k, v) ==
    [x \in DOMAIN m \cup {k} |-> IF x \in DOMAIN m THEN m[x] ELSE v]

\* HashMap::insert
MapInsert(m, k, v) == [x \in DOMAIN m \cup {k} |-> IF x = k THEN v ELSE m[x]]

\* angle_rounded with round() in place of floor()
angle_rounded_Nearest(angle) == ((angle + 15) \div 30) * 30

\* plot_2d: (angle / 30.0).floor() as i32 * 30
angle_rounded(angle) == (angle \div 30) * 30

\* plot_2d: self.zodiac.get(&angle_rounded)
sign_of(angle) == MapGet(zodiac, angle_rounded(angle))

-----------------------------------------------------------------------------
(* Bounds and the inputs the model draws *)

MaxBodies == 3

MaxPoints == 2

TimeStep == 7 * FP

Times == {-TimeStep, 0, TimeStep}

StartTimes == {0, TimeStep}

\* <<mass, x, y, z>>
StaticInputs == { <<4, 0, 0, 0>>, <<0, 3, 1, -2>> }

RootInputs == { <<4, 3, 1, -2>> }

\* <<mass, semimajor, eccentricity, inclination, lan, aop, mae>>, angles in degrees
OrbitInputs == { <<4, 4, 0, 0, 0, 0, 0>>, <<1, 2, 500, 30, 60, 90, 45>> }

\* the values a Variable body's closure captures (as moon_loc passes them to
\* Orbitor::new), with the drift rates of its node and periapsis
DriftRate == 19 * 1

ClosureInputs(parent, rates) ==
    { [mass |-> 1, parent |-> parent, semimajor |-> 3, eccentricity |-> 55,
       inclination |-> 5145, lan |-> 125080, aop |-> 318150, mae |-> 13130,
       lanRate |-> r, aopRate |-> 2 * r, semimajorRate |-> 0] : r \in rates }

\* a closure whose semi-major axis grows with time, by one unit in TimeStep
RecedeRate == 143 * 1

RecedingInputs(parent) ==
    { [mass |-> 1, parent |-> parent, semimajor |-> 3, eccentricity |-> 55,
       inclination |-> 5145, lan |-> 125080, aop |-> 318150, mae |-> 13130,
       lanRate |-> 0, aopRate |-> 0, semimajorRate |-> RecedeRate] }

SlotNames == <<"Sun", "Earth", "Moon", "Mars", "Venus", "Jupiter">>

\* the names the registry model draws
Names == {"Sun", "Mars", "mars", "MARS"}

MaxObjects == 3

MaxTurns == 1

\* whole degrees from -MaxTurns turns up to MaxTurns turns past the circle
AngleInputs == (-360 * MaxTurns)..(360 * MaxTurns + 359)

Ids == 1..Len(bodies)

-----------------------------------------------------------------------------
(* State machine *)

Call(op, args, val, panic) == [op |-> op, a |-> args, val |-> val, panic |-> panic]

\* a call that returns r.val or panics
CallR(op, args, r) == Call(op, args, r.val, r.panic)

NoCall == Call("none", <<>>, <<>>, FALSE)

\* no call is in progress: the caller is between two statements
Idle == res = NoCall

Init ==
    /\ bodies = <<>>
    /\ objects = <<>>
    /\ index = <<>>
    /\ res = NoCall

NewStatic(name, mass, x, y, z) ==
    /\ Idle
    /\ Len(bodies) < MaxBodies
    /\ bodies' = Append(bodies, new_static(name, mass, x, y, z))
    /\ UNCHANGED <<objects, index, res>>

NewOrbitor(name, mass, parent, semimajor, eccentricity, inclination, lan, aop, mae) ==
    /\ Idle
    /\ Len(bodies) < MaxBodies
    /\ parent \in Ids
    /\ bodies' = Append(bodies, new_orbitor(name, mass, parent, semimajor,
                                            eccentricity, inclination, lan, aop, mae))
    /\ UNCHANGED <<objects, index, res>>

NewVariable(name, function) ==
    /\ Idle
    /\ Len(bodies) < MaxBodies
    /\ function.parent \in Ids
    /\ bodies' = Append(bodies, new_variable(name, function))
    /\ UNCHANGED <<objects, index, res>>

OrbitalPeriod(id, time) ==
    /\ Idle
    /\ res' = Call("orbital_period", <<id, time>>, orbital_period(bodies, id, time), FALSE)
    /\ UNCHANGED <<bodies, objects, index>>

\* xyz leaving the anomaly it computed in the body as its new anomaly at epoch
Xyz_StoresAnomaly(id, time) ==
    /\ Idle
    /\ res' = Call("xyz", <<id, time>>, xyz(bodies, id, time), FALSE)
    /\ bodies' = IF bodies[id].kind = "Orbit"
                 THEN [bodies EXCEPT ![id].o.mae =
                          current_mean_anomaly(bodies, bodies[id].o, time)]
                 ELSE bodies
    /\ UNCHANGED <<objects, index>>

Xyz(id, time) ==
    /\ Idle
    /\ res' = Call("xyz", <<id, time>>, xyz(bodies, id, time), FALSE)
    /\ UNCHANGED <<bodies, objects, index>>

Xy(id, time) ==
    /\ Idle
    /\ res' = Call("xy", <<id, time>>, xy(bodies, id, time), FALSE)
    /\ UNCHANGED <<bodies, objects, index>>

AngleRad(self, other, time) ==
    /\ Idle
    /\ res' = Call("angle_rad", <<self, other, time>>,
                   angle_rad(bodies, self, other, time), FALSE)
    /\ UNCHANGED <<bodies, objects, index>>

AngleDeg(self, other, time) ==
    /\ Idle
    /\ res' = Call("angle_deg", <<self, other, time>>,
                   angle_deg(bodies, self, other, time), FALSE)
    /\ UNCHANGED <<bodies, objects, index>>

Trajectory2d(id, start_time, num_points) ==
    /\ Idle
    /\ res' = CallR("trajectory_2d", <<id, start_time, num_points>>,
                    trajectory_2d(bodies, id, start_time, num_points))
    /\ UNCHANGED <<bodies, objects, index>>

Trajectory3d(id, start_time, num_points) ==
    /\ Idle
    /\ res' = CallR("trajectory_3d", <<id, start_time, num_points>>,
                    trajectory_3d(bodies, id, start_time, num_points))
    /\ UNCHANGED <<bodies, objects, index>>

TrajectoryRelative2d(self, other, start_time, num_points) ==
    /\ Idle
    /\ res' = CallR("trajectory_relative_2d", <<self, other, start_time, num_points>>,
                    trajectory_relative_2d(bodies, self, other, start_time, num_points))
    /\ UNCHANGED <<bodies, objects, index>>

TrajectoryRelative3d(self, other, start_time, num_points) ==
    /\ Idle
    /\ res' = CallR("trajectory_relative_3d", <<self, other, start_time, num_points>>,
                    trajectory_relative_3d(bodies, self, other, start_time, num_points))
    /\ UNCHANGED <<bodies, objects, index>>

\* SolarSystem::add
Add(id) ==
    /\ Idle
    /\ Len(objects) < MaxObjects
    /\ objects' = Append(objects, id)
    /\ index' = MapInsert(index, get_name(bodies[id]), id)
    /\ UNCHANGED <<bodies, res>>

\* the sign lookup of plot_2d, for one angle
SignOf(angle) ==
    /\ Idle
    /\ res' = Call("sign", <<angle>>, sign_of(angle), FALSE)
    /\ UNCHANGED <<bodies, objects, index>>

\* the constructors, on inputs drawn from the given sets
Construct(statics, orbits, rates) ==
    LET name == SlotNames[Len(bodies) + 1]
    IN  \/ \E s \in statics : NewStatic(name, s[1], s[2], s[3], s[4])
        \/ \E e \in orbits, parent \in Ids :
              NewOrbitor(name, e[1], parent, e[2], e[3], e[4], e[5], e[6], e[7])
        \/ \E parent \in Ids : \E f \in ClosureInputs(parent, rates) :
              NewVariable(name, f)

\* the caller is done with the returned value
Return ==
    /\ ~Idle
    /\ res' = NoCall
    /\ UNCHANGED <<bodies, objects, index>>

\* Positions, bearings and periods of the bodies of a system
Next ==
    \/ Construct(StaticInputs, OrbitInputs, {0, DriftRate})
    \/ \E id \in Ids, t \in Times : OrbitalPeriod(id, t)
    \/ \E id \in Ids, t \in Times : Xyz(id, t)
    \/ \E id \in Ids, t \in Times : Xy(id, t)
    \/ \E self \in Ids, other \in Ids, t \in Times : AngleRad(self, other, t)
    \/ \E self \in Ids, other \in Ids, t \in Times : AngleDeg(self, other, t)
    \/ Return

Spec == Init /\ [][Next]_vars

\* Trajectories of the bodies of a system with one Static root
NextTraj ==
    \/ Construct(RootInputs, OrbitInputs, {DriftRate})
    \/ \E id \in Ids, t \in Times : OrbitalPeriod(id, t)
    \/ \E id \in Ids, t \in StartTimes, n \in 1..MaxPoints : Trajectory2d(id, t, n)
    \/ \E id \in Ids, t \in StartTimes, n \in 1..MaxPoints : Trajectory3d(id, t, n)
    \/ \E self \in Ids, other \in Ids, t \in StartTimes, n \in 1..MaxPoints :
          TrajectoryRelative2d(self, other, t, n)
    \/ \E self \in Ids, other \in Ids, t \in StartTimes, n \in 1..MaxPoints :
          TrajectoryRelative3d(self, other, t, n)
    \/ Return

SpecTraj == Init /\ [][NextTraj]_vars

\* The registry: bodies under any of the names, added in any order
NextRegistry ==
    \/ \E name \in Names, s \in RootInputs : NewStatic(name, s[1], s[2], s[3], s[4])
    \/ \E id \in Ids : Add(id)

SpecRegistry == Init /\ [][NextRegistry]_vars

\* The sign lookup as a function of the angle
NextZodiac ==
    \/ \E angle \in AngleInputs : SignOf(angle)
    \/ Return

SpecZodiac == Init /\ [][NextZodiac]_vars

-----------------------------------------------------------------------------
(* The sector-entry search and its callers in main *)

\* seconds in a day
SecondsPerDay == 3

\* one second and one day, as time values
Second == FP

Day == SecondsPerDay * Second

\* J2000 as a time value: the epoch itself
J2000 == 0 * Second

\* the period standing in for a body that has none
DefaultPeriod == 1 * FP

\* what the search model draws: registered and unknown names
SearchOrbits == { <<1, 2, 500, 30, 60, 90, 45>> }

BodyNames == {"Sun", "Moon", "Pluto"}

SectorNameInputs == {"Aries", "Libra", "Ophiuchus"}

\* the width of a sector of the zodiac
SectorWidth == 360 \div Cardinality(DOMAIN zodiac)

\* the [angle_start, angle_end) of the sector of that name
sector_angle_range(name) ==
    LET ks == {k \in DOMAIN zodiac : zodiac[k] = name}
    IN  IF ks = {} THEN None
        ELSE LET k == CHOOSE k \in ks : TRUE IN Some(<<k, k + SectorWidth>>)

\* the registered body of that name
resolve_body(name) == MapGet(index, name)

\* the position in `objects` of the zodiac reference body (SolarSystem::new(zodiac, 3))
ZodiacCenterIndex == MaxBodies - 2

\* solar_system.zodiac_center()
zodiac_center == objects[ZodiacCenterIndex + 1]

\* every body built is registered, the reference body among them
SystemReady ==
    /\ Len(objects) = Len(bodies)
    /\ Len(objects) > ZodiacCenterIndex

\* the bearing of the reference body as seen from the body, in degrees
bearing_from(body, time) == angle_deg(bodies, zodiac_center, body, time)

in_sector(angle, range) == range[1] <= angle /\ angle < range[2]

period_or_default(id, time) == OrElse(orbital_period(bodies, id, time), DefaultPeriod)

\* the scan window max_time with the product taken per day squared
scan_window_PerDaySquared(body, time) ==
    TDiv(TDiv(Mul(period_or_default(body, time),
                  period_or_default(zodiac_center, time)), Day), SecondsPerDay)

\* the scan window: period(body) * period(reference body), in whole days
scan_window(body, time) ==
    TDiv(Mul(period_or_default(body, time),
             period_or_default(zodiac_center, time)), Day)

\* plot_2d, the sign shown for obj: obj.angle_deg(zodiac_center, time), floored
\* to its sector and looked up in the zodiac
sign_report(obj, time) == sign_of(angle_deg(bodies, obj, zodiac_center, time))

\* sector_for: the sign of the named body, as the sign report computes it
sector_for(body_name, time) ==
    LET body == resolve_body(body_name)
    IN  IF ~IsSome(body) THEN None
        ELSE sign_report(body[1], time)

\* the position of a search: its loop, its counters and what it returned
Frame(pc, body, range, max_time, day, sec, ret) ==
    [pc |-> pc, body |-> body, range |-> range, max_time |-> max_time,
     day |-> day, sec |-> sec, ret |-> ret]

Searching(pc) == res.op = "next_time_in_sector" /\ res.val.pc = pc

\* the day step `day` from start_time
DayStep(start_time, day) == start_time + day * Day

\* next_time_in_sector is entered: both lookups, then the scan window
SearchBegin(body_name, sector_name, start_time) ==
    /\ Idle
    /\ SystemReady
    /\ LET range == sector_angle_range(sector_name)
           body  == resolve_body(body_name)
           args  == <<body_name, sector_name, start_time>>
       IN  res' = IF ~IsSome(range) \/ ~IsSome(body)
                  THEN Call("next_time_in_sector", args,
                            Frame("returned", body, range, 0, 0, 0, None), FALSE)
                  ELSE Call("next_time_in_sector", args,
                            Frame("coarse", body, range,
                                  scan_window(body[1], start_time), 0, 0, None), FALSE)
    /\ UNCHANGED <<bodies, objects, index>>

\* the frame after one more whole-day step of the coarse pass
CoarseNext(f, start_time, angle) ==
    IF in_sector(angle, f.range[1])
    THEN [f EXCEPT !.pc = "refine", !.day = f.day + 1, !.sec = 0]
    ELSE [f EXCEPT !.day = f.day + 1]

\* the coarse pass: one whole-day step, or the end of the scan window
CoarseStep ==
    /\ Searching("coarse")
    /\ LET f == res.val
       IN  res' = [res EXCEPT !.val =
                     IF f.day >= f.max_time
                     THEN [f EXCEPT !.pc = "returned", !.ret = None]
                     ELSE CoarseNext(f, res.a[3],
                              bearing_from(f.body[1], DayStep(res.a[3], f.day + 1)))]
    /\ UNCHANGED <<bodies, objects, index>>

\* RefineNext returning the first second of the day without testing its bearing
RefineNext_Untested(f, t, angle) ==
    [f EXCEPT !.pc = "returned", !.ret = Some(t)]

\* the frame after the refinement looked at the instant t with that bearing
RefineNext(f, t, angle) ==
    IF in_sector(angle, f.range[1])
    THEN [f EXCEPT !.pc = "returned", !.ret = Some(t)]
    ELSE [f EXCEPT !.sec = f.sec + 1]

\* the refinement: one second forward from the previous day step, or the
\* day step itself once the day is used up
RefineStep ==
    /\ Searching("refine")
    /\ LET f == res.val
       IN  res' = [res EXCEPT !.val =
                     IF f.sec >= SecondsPerDay
                     THEN [f EXCEPT !.pc = "returned",
                                    !.ret = Some(DayStep(res.a[3], f.day))]
                     ELSE RefineNext(f, DayStep(res.a[3], f.day - 1) + f.sec * Second,
                              bearing_from(f.body[1],
                                  DayStep(res.a[3], f.day - 1) + f.sec * Second))]
    /\ UNCHANGED <<bodies, objects, index>>

\* main, next subcommand: match { Some(st) => st, None => { println!(error); J2000 } }
\* and then println!("The next time ... is {sign_time}")
sign_time(ret) == IF IsSome(ret) THEN ret[1] ELSE J2000

MainNextReport ==
    /\ Searching("returned")
    /\ res' = Call("main_next", res.a,
                   [ret |-> res.val.ret,
                    error_shown |-> ~IsSome(res.val.ret),
                    next_time_shown |-> Some(sign_time(res.val.ret))], FALSE)
    /\ UNCHANGED <<bodies, objects, index>>

\* Option::unwrap
UnwrapOr(opt) == IF IsSome(opt) THEN Returned(opt[1]) ELSE Panicked

\* main, sign subcommand: zodiac_for_dt(planet, time).unwrap()
MainSign(planet, time) ==
    /\ Idle
    /\ SystemReady
    /\ res' = CallR("main_sign", <<planet, time>>, UnwrapOr(sector_for(planet, time)))
    /\ UNCHANGED <<bodies, objects, index>>

\* the subcommand is over
MainDone ==
    /\ res.op \in {"main_next", "main_sign"}
    /\ res' = NoCall
    /\ UNCHANGED <<bodies, objects, index>>

\* main builds the bodies, then adds them in the order built
AddNext ==
    /\ Len(objects) < Len(bodies)
    /\ Add(Len(objects) + 1)

NextSearch ==
    \/ objects = <<>> /\ Construct(RootInputs, SearchOrbits, {DriftRate})
    \/ AddNext
    \/ \E name \in BodyNames, sector \in SectorNameInputs, t \in StartTimes :
          SearchBegin(name, sector, t)
    \/ CoarseStep
    \/ RefineStep
    \/ MainNextReport
    \/ \E name \in BodyNames, t \in StartTimes : MainSign(name, t)
    \/ MainDone

SpecSearch == Init /\ [][NextSearch]_vars

-----------------------------------------------------------------------------
(* The Kepler solver on its own *)

\* <<mass, semimajor, eccentricity, inclination, lan, aop, mae>>: a mean
\* anomaly past a full turn, a degenerate orbit, a near-parabolic one
KeplerOrbits ==
    { <<1, 2, 900, 0, 0, 0, 17>>, <<1, 2, 500, 30, 60, 90, 400>>,
      <<1, 0, 999, 0, 0, 0, 45>>, <<4, 4, 0, 0, 0, 0, 0>> }

\* self.current_mean_anomaly(time), as orbit_xy calls it
CurrentMeanAnomaly(id, time) ==
    /\ Idle
    /\ bodies[id].kind # "Static"
    /\ res' = Call("current_mean_anomaly", <<id, time>>,
                   current_mean_anomaly(bodies,
                       IF bodies[id].kind = "Orbit" THEN bodies[id].o
                       ELSE CallF(bodies[id].f, time), time), FALSE)
    /\ UNCHANGED <<bodies, objects, index>>

\* self.eccentric_anomaly(self.current_mean_anomaly(time)), as orbit_xy calls it
EccentricAnomalyOf(o, mean_anomaly) ==
    [M |-> mean_anomaly, e |-> o.eccentricity, E |-> eccentric_anomaly(o, mean_anomaly)]

EccentricAnomaly(id, time) ==
    /\ Idle
    /\ bodies[id].kind = "Orbit"
    /\ res' = Call("eccentric_anomaly", <<id, time>>,
                   EccentricAnomalyOf(bodies[id].o,
                       current_mean_anomaly(bodies, bodies[id].o, time)), FALSE)
    /\ UNCHANGED <<bodies, objects, index>>

NextKepler ==
    \/ Construct(RootInputs, KeplerOrbits, {DriftRate})
    \/ \E id \in Ids, t \in Times : CurrentMeanAnomaly(id, t)
    \/ \E id \in Ids, t \in Times : EccentricAnomaly(id, t)
    \/ Return

SpecKepler == Init /\ [][NextKepler]_vars

-----------------------------------------------------------------------------
(* Periods of bodies whose elements change with time *)

NextPeriod ==
    \/ Construct(RootInputs, SearchOrbits, {DriftRate})
    \/ \E parent \in Ids : \E f \in RecedingInputs(parent) :
          NewVariable(SlotNames[Len(bodies) + 1], f)
    \/ \E id \in Ids, t \in Times : OrbitalPeriod(id, t)
    \/ Return

SpecPeriod == Init /\ [][NextPeriod]_vars

-----------------------------------------------------------------------------
(* Wall-clock instants and their conversion *)

\* the Julian day of 2000-01-01
JulianDayJ2000 == 2451545

\* how many days before and after J2000 the instants drawn reach
MaxDayOffset == 20

\* an OffsetDateTime (UTC): the Julian day of its date and the second of that day
Instant(jd, sod) == [jd |-> jd, sod |-> sod]

\* datetime!(2000-01-01 12:00 UTC)
J2000_datetime == Instant(JulianDayJ2000, SecondsPerDay \div 2)

\* OffsetDateTime::to_julian_day: the day number of the date, an i32
to_julian_day(dt) == dt.jd

Instants ==
    { Instant(JulianDayJ2000 + d, sod) :
        d \in (-MaxDayOffset)..MaxDayOffset, sod \in 0..(SecondsPerDay - 1) }

\* (dt.to_julian_day() - J2000.to_julian_day()) as f64 / 365.25 * 997.94
convert_datetime(dt) ==
    TDiv(TDiv((to_julian_day(dt) - to_julian_day(J2000_datetime)) * FP * 10000, 36525)
           * 99794, 10000)

ConvertDatetime(dt) ==
    /\ Idle
    /\ res' = Call("convert_datetime", <<dt>>, convert_datetime(dt), FALSE)
    /\ UNCHANGED <<bodies, objects, index>>

NextTime ==
    \/ \E dt \in Instants : ConvertDatetime(dt)
    \/ Return

SpecTime == Init /\ [][NextTime]_vars

-----------------------------------------------------------------------------
(* Queries repeated among other queries *)

\* main's build order: a Static root, then bodies that each orbit the last built
BuildChain ==
    LET name == SlotNames[Len(bodies) + 1]
    IN  \/ bodies = <<>> /\ \E s \in RootInputs : NewStatic(name, s[1], s[2], s[3], s[4])
        \/ bodies # <<>> /\ \E e \in SearchOrbits :
              NewOrbitor(name, e[1], Len(bodies), e[2], e[3], e[4], e[5], e[6], e[7])
        \/ bodies # <<>> /\ \E f \in ClosureInputs(Len(bodies), {DriftRate}) :
              NewVariable(name, f)

\* what the query `op` returns on the arguments a, from the bodies bs
Answer(bs, op, a) ==
    CASE op = "orbital_period" -> Returned(orbital_period(bs, a[1], a[2]))
      [] op = "xyz"            -> Returned(xyz(bs, a[1], a[2]))
      [] op = "xy"             -> Returned(xy(bs, a[1], a[2]))
      [] op = "angle_rad"      -> Returned(angle_rad(bs, a[1], a[2], a[3]))
      [] op = "angle_deg"      -> Returned(angle_deg(bs, a[1], a[2], a[3]))
      [] op = "trajectory_2d"  -> trajectory_2d(bs, a[1], a[2], a[3])
      [] op = "trajectory_3d"  -> trajectory_3d(bs, a[1], a[2], a[3])
      [] op = "trajectory_relative_2d" ->
             trajectory_relative_2d(bs, a[1], a[2], a[3], a[4])
      [] op = "trajectory_relative_3d" ->
             trajectory_relative_3d(bs, a[1], a[2], a[3], a[4])

NextQueries ==
    \/ BuildChain
    \/ \E id \in Ids, t \in Times : OrbitalPeriod(id, t)
    \/ \E id \in Ids, t \in Times : Xyz(id, t)
    \/ \E id \in Ids, t \in Times : Xy(id, t)
    \/ \E self \in Ids, other \in Ids, t \in Times : AngleRad(self, other, t)
    \/ \E self \in Ids, other \in Ids, t \in Times : AngleDeg(self, other, t)
    \/ \E id \in Ids, t \in StartTimes, n \in 1..MaxPoints : Trajectory2d(id, t, n)
    \/ \E id \in Ids, t \in StartTimes, n \in 1..MaxPoints : Trajectory3d(id, t, n)
    \/ \E self \in Ids, other \in Ids, t \in StartTimes, n \in 1..MaxPoints :
          TrajectoryRelative2d(self, other, t, n)
    \/ \E self \in Ids, other \in Ids, t \in StartTimes, n \in 1..MaxPoints :
          TrajectoryRelative3d(self, other, t, n)
    \/ Return

SpecQueries == Init /\ [][NextQueries]_vars

-----------------------------------------------------------------------------
(* Properties *)

IsOrbiting(b) == b.kind # "Static"

\* the Orbitor a non-Static body is at `time`
OrbitorAt(b, time) == IF b.kind = "Orbit" THEN b.o ELSE CallF(b.f, time)

ParentOf(b) == IF b.kind = "Orbit" THEN b.o.parent ELSE b.f.parent

\* the body and its ancestors, from the body up to its Static root
RECURSIVE Chain(_, _)
Chain(bs, id) ==
    IF bs[id].kind = "Static" THEN <<id>>
    ELSE <<id>> \o Chain(bs, ParentOf(bs[id]))

\* bs with body g replaced by a Static body of the given mass at the origin
WithStatic(bs, g, mass) ==
    [bs EXCEPT ![g] = new_static(bs[g].name, mass, 0, 0, 0)]

\* C1: the period of an orbiting body depends only on its semi-major axis and
\* on the sum of its own and its parent's mass: it is the same when the parent
\* is replaced by a Static body of the same mass, and it does not change when
\* an ancestor above the parent is replaced by a body of another mass.
C1_PeriodDependsOnlyOnParent ==
    (res.op = "orbital_period" /\ IsOrbiting(bodies[res.a[1]])) =>
        LET id    == res.a[1]
            time  == res.a[2]
            chain == Chain(bodies, id)
            p     == chain[2]
        IN  /\ orbital_period(WithStatic(bodies, p, get_mass(bodies[p])), id, time)
                  = res.val
            /\ \A k \in 3..Len(chain) : \A m \in {0, 1, 4} :
                  orbital_period(WithStatic(bodies, chain[k], m), id, time) = res.val

\* C2: an orbiting body whose parent is Static has the two-body period
\* 2*pi / sqrt(mu / a^3), mu = G * (mass_self + mass_parent).
C2_TwoBodyPeriod ==
    (/\ res.op = "orbital_period"
     /\ IsOrbiting(bodies[res.a[1]])
     /\ bodies[ParentOf(bodies[res.a[1]])].kind = "Static") =>
        LET o  == OrbitorAt(bodies[res.a[1]], res.a[2])
            a  == o.semimajor
            mu == G * (o.mass + bodies[o.parent].s.mass)
        IN  res.val = Some(IF a = 0 THEN 0
                           ELSE TDiv(TAU * FP, ISqrt((mu * FP * FP) \div (a * a * a))))

C2_Witness ==
    /\ res.op = "orbital_period"
    /\ bodies[res.a[1]].kind = "Orbit"
    /\ bodies[bodies[res.a[1]].o.parent].kind = "Static"
    /\ bodies[bodies[res.a[1]].o.parent].s.mass > 0
    /\ res.val # None
    /\ res.val[1] > 0

\* C3: orbital_period is None exactly for a Static body, and the unwrap() of
\* trajectory_2d, trajectory_3d and trajectory_relative_2d never panics.
C3_PeriodNoneIffStatic ==
    /\ res.op = "orbital_period" =>
          ((res.val = None) <=> (bodies[res.a[1]].kind = "Static"))
    /\ res.op \in {"trajectory_2d", "trajectory_3d", "trajectory_relative_2d"} =>
          ~res.panic

C3_Witness ==
    /\ res.op = "trajectory_relative_2d"
    /\ bodies[res.a[1]].kind = "Variable"
    /\ IsOrbiting(bodies[res.a[2]])
    /\ ~res.panic
    /\ Len(res.val) = res.a[4] + 1

\* the scaled offset of a non-Static body from its parent at `time`
ScaledOffset(bs, id, time) ==
    LET o == OrbitorAt(bs[id], time)
        q == in_parent_coordinates(o, orbit_xy(bs, o, time))
    IN  [c \in 1..3 |-> TDiv(q[c] * PosRes, SCALING_FACTOR)]

\* the sum of the scaled offsets of the first n bodies of a chain
RECURSIVE SumOffsets(_, _, _, _)
SumOffsets(bs, chain, n, time) ==
    IF n = 0 THEN <<0, 0, 0>>
    ELSE PointAdd(SumOffsets(bs, chain, n - 1, time),
                  ScaledOffset(bs, chain[n], time))

\* C4: the position of a body is its Static root's fixed coordinate plus the
\* sum of the scaled offsets of the bodies on its parent chain, each at the
\* same time; a Static body is at its fixed coordinate at every time.
C4_PositionIsChainSum ==
    res.op = "xyz" =>
        LET chain == Chain(bodies, res.a[1])
            root  == bodies[chain[Len(chain)]].s
        IN  res.val = PointAdd(<<Coord(root.x), Coord(root.y), Coord(root.z)>>,
                               SumOffsets(bodies, chain, Len(chain) - 1, res.a[2]))

C4_Witness ==
    /\ res.op = "xyz"
    /\ res.a[2] # 0
    /\ Len(Chain(bodies, res.a[1])) = 3
    /\ bodies[Chain(bodies, res.a[1])[3]].s.x # 0
    /\ res.val # xyz(bodies, Chain(bodies, res.a[1])[2], res.a[2])

\* C5: for two bodies at distinct projected positions, angle_rad is the
\* bearing atan2(self.y - other.y, self.x - other.x) brought into [0, 2*pi),
\* and angle_deg lies in [0, 360).
C5_BearingInRange ==
    /\ res.op = "angle_rad" =>
          LET p == xyz(bodies, res.a[1], res.a[3])
              q == xyz(bodies, res.a[2], res.a[3])
          IN  (<<p[1], p[3]>> # <<q[1], q[3]>>) =>
                 /\ res.val \in 0..(TAU - 1)
                 /\ (res.val - Atan2(p[3] - q[3], p[1] - q[1])) % TAU = 0
    /\ res.op = "angle_deg" => res.val \in 0..359

C5_Witness ==
    /\ res.op = "angle_rad"
    /\ res.a[1] # res.a[2]
    /\ res.val > TAU \div 2
    /\ LET p == xy(bodies, res.a[1], res.a[3])
           q == xy(bodies, res.a[2], res.a[3])
       IN  Atan2(p[2] - q[2], p[1] - q[1]) = res.val - TAU

\* the values of SCALING_FACTOR compared
ScalingFactors == {1, SCALING_FACTOR, 2 * SCALING_FACTOR}

\* C6: the scaling divisor is cosmetic: for every pair of bodies and every
\* time the bearing is the same under any two positive values of the divisor
\* (the period does not read the divisor at all).
C6_ScalingIsCosmetic ==
    /\ res.op = "angle_rad" =>
          \A sf \in ScalingFactors :
              angle_radS(sf, bodies, res.a[1], res.a[2], res.a[3]) = res.val
    /\ res.op = "angle_deg" =>
          \A sf \in ScalingFactors :
              angle_degS(sf, bodies, res.a[1], res.a[2], res.a[3]) = res.val

\* the sectors in order, sector i covering [30 * i, 30 * (i + 1))
SectorNames ==
    <<"Aries", "Taurus", "Gemini", "Cancer", "Leo", "Virgo", "Libra", "Scorpio",
      "Sagittarius", "Capricorn", "Aquarius", "Pisces">>

PositionIn(op, id, time) ==
    IF op = "trajectory_2d" THEN xy(bodies, id, time) ELSE xyz(bodies, id, time)

\* the n + 1 positions at the instants start + k * span / n, k = 0..n
EvenSamples(op, id, start, span, n) ==
    [k \in 1..(n + 1) |-> PositionIn(op, id, start + TDiv((k - 1) * span, n))]

\* C8 as claimed: a trajectory over a span with n samples is, for every body
\* kind, Static included, the n + 1 positions at start + k * span / n (the
\* span being the period, or the 5 seconds of plot_2d for a Static body).
C8_TrajectorySamples ==
    res.op \in {"trajectory_2d", "trajectory_3d"} =>
        LET p == orbital_period(bodies, res.a[1], res.a[2])
        IN  res.val = EvenSamples(res.op, res.a[1], res.a[2],
                                  IF IsSome(p) THEN p[1] ELSE 5 * FP, res.a[3])

\* C8 as amended: for a non-Static body the n + 1 positions at
\* start + k * period / n; for a Static body the one fixed coordinate.
C8_TrajectorySamplesOrbiting ==
    res.op \in {"trajectory_2d", "trajectory_3d"} =>
        IF IsOrbiting(bodies[res.a[1]])
        THEN /\ Len(res.val) = res.a[3] + 1
             /\ res.val = EvenSamples(res.op, res.a[1], res.a[2],
                              orbital_period(bodies, res.a[1], res.a[2])[1], res.a[3])
        ELSE res.val = <<PositionIn(res.op, res.a[1], 0)>>

C8_Witness ==
    /\ res.op = "trajectory_3d"
    /\ IsOrbiting(bodies[res.a[1]])
    /\ res.a[3] = 2
    /\ Len(res.val) = 3
    /\ res.val[3] = xyz(bodies, res.a[1],
                        res.a[2] + orbital_period(bodies, res.a[1], res.a[2])[1])
    /\ res.val[1] # res.val[2]

\* C9: the 2-D and the 3-D relative trajectory called with the same
\* arguments sample the same instants, whichever of self and other is Static
\* or orbiting.
C9_SameInstants2dAnd3d ==
    res.op = "trajectory_relative_2d" =>
        relative_2d_times(bodies, res.a[1], res.a[2], res.a[3], res.a[4])
            = relative_3d_times(bodies, res.a[1], res.a[2], res.a[3], res.a[4])

\* str::to_lowercase on the names the model draws
Lower(name) ==
    CASE name \in {"Mars", "mars", "MARS"} -> "mars"
      [] name \in {"Sun"} -> "sun"

\* what a lookup of `name` can find in the index: the entry under the name as
\* given, or the entry under the name lower-cased
Lookups(name) == {MapGet(index, name), MapGet(index, Lower(name))}

\* C10: after add of a body named S, a lookup under any name equal to S up
\* to letter case resolves as the lookup under S does: names differing only
\* in case are one registry key.
C10_CaseInsensitiveLookup ==
    \A i \in 1..Len(objects) : \A name \in Names :
        LET S == get_name(bodies[objects[i]])
        IN  Lower(name) = Lower(S) =>
               /\ MapGet(index, S) \in Lookups(name)
               /\ \A key \in DOMAIN index : Lower(key) = Lower(S) => key = S

\* the names under which a body is registered
RegisteredNames == {get_name(bodies[objects[i]]) : i \in 1..Len(objects)}

\* the call names a body or a sector that does not exist
LookupFails(body_name, sector_name) ==
    \/ body_name \notin RegisteredNames
    \/ sector_name \notin {SectorNames[i] : i \in 1..Len(SectorNames)}

\* next_time_in_sector on an unknown body or sector: absent, without a scan
AbsentWithoutScan ==
    (Searching("returned") /\ LookupFails(res.a[1], res.a[2])) =>
        /\ res.val.ret = None
        /\ res.val.day = 0 /\ res.val.sec = 0
        /\ ~res.panic

\* C11: next_time_in_sector returns absent, without a panic and without a
\* scan, when the body or the sector is unknown; sector_for returns absent
\* for an unknown body; and no caller turns that absence into a panic.
C11_LookupFailureIsAbsent ==
    /\ AbsentWithoutScan
    /\ res.op \in {"main_next", "main_sign"} => ~res.panic

\* the sector of that name is in_sector of the bearing seen from the named
\* body at time t
BearingInNamedSector(body_name, sector_name, t) ==
    LET lo == CHOOSE k \in DOMAIN zodiac : zodiac[k] = sector_name
    IN  /\ lo <= angle_deg(bodies, zodiac_center, index[body_name], t)
        /\ angle_deg(bodies, zodiac_center, index[body_name], t) < lo + 30

\* C12: a time t' returned by next_time_in_sector is not before start_time,
\* lies in the day that ends at the first whole-day step whose bearing is in
\* the sector, and has its own bearing in the sector; it is that day step
\* itself when no second of the day before it is in the sector.
C12_FoundTimeInSector ==
    (Searching("returned") /\ IsSome(res.val.ret)) =>
        LET t     == res.val.ret[1]
            start == res.a[3]
            d     == res.val.day
            InDay(k) == BearingInNamedSector(res.a[1], res.a[2], start + k * Day)
        IN  /\ t >= start
            /\ d >= 1 /\ InDay(d) /\ \A k \in 1..(d - 1) : ~InDay(k)
            /\ start + (d - 1) * Day <= t /\ t <= start + d * Day
            /\ BearingInNamedSector(res.a[1], res.a[2], t)
            /\ (\A k \in 0..(SecondsPerDay - 1) :
                   ~BearingInNamedSector(res.a[1], res.a[2],
                                         start + (d - 1) * Day + k * Second))
                  => t = start + d * Day

\* a time found by the refinement, strictly inside a day after the first
C12_Witness ==
    /\ Searching("returned")
    /\ IsSome(res.val.ret)
    /\ res.val.day >= 2
    /\ res.val.ret[1] > res.a[3] + (res.val.day - 1) * Day
    /\ res.val.ret[1] < res.a[3] + res.val.day * Day

\* a time that is the day step itself, the refinement having found nothing
C12_FallbackReached ==
    /\ Searching("returned")
    /\ IsSome(res.val.ret)
    /\ res.a[3] > 0
    /\ res.val.sec = SecondsPerDay
    /\ res.val.ret[1] = res.a[3] + res.val.day * Day

\* the period of body id in whole model time, 1 unit for a body without one
PeriodOrUnit(id, time) ==
    IF bodies[id].kind = "Static" THEN FP ELSE orbital_period(bodies, id, time)[1]

\* the steps of a search stay within its scan window and within one day
SearchWithinWindow ==
    res.op = "next_time_in_sector" =>
        /\ res.val.day <= res.val.max_time
        /\ res.val.sec <= SecondsPerDay
        /\ ~LookupFails(res.a[1], res.a[2]) =>
              res.val.max_time =
                  (PeriodOrUnit(index[res.a[1]], res.a[3])
                     * PeriodOrUnit(zodiac_center, res.a[3])) \div (FP * Day)

\* a search none of whose day steps is in the sector returns absent
ExhaustionIsAbsent ==
    (/\ Searching("returned")
     /\ ~LookupFails(res.a[1], res.a[2])
     /\ \A k \in 1..res.val.max_time :
           ~BearingInNamedSector(res.a[1], res.a[2], res.a[3] + k * Day)) =>
        res.val.ret = None /\ res.val.day = res.val.max_time

\* a step of a search returns, or takes the coarse pass one day further, or
\* takes the refinement one second further; the refinement never goes back
\* to the coarse pass
SearchAdvances ==
    (res.op = "next_time_in_sector" /\ res'.op = "next_time_in_sector") =>
        \/ res'.val.pc = "returned"
        \/ /\ res.val.pc = "coarse"
           /\ res'.val.pc \in {"coarse", "refine"}
           /\ res'.val.day = res.val.day + 1
        \/ /\ res.val.pc = "refine" /\ res'.val.pc = "refine"
           /\ res'.val.day = res.val.day
           /\ res'.val.sec = res.val.sec + 1

\* C13: next_time_in_sector terminates: the coarse pass takes at most
\* max_time one-day steps, max_time being period(body) * period(reference)
\* in whole days with a 1-unit period for a body that has none, the
\* refinement takes at most one day of one-second steps, every step advances
\* one of the two counters or returns, and a search with no coarse step in
\* the sector returns absent.
C13_SearchTerminates ==
    /\ [](SearchWithinWindow /\ ExhaustionIsAbsent)
    /\ [][SearchAdvances]_vars

\* a search that used up a scan window of several days and returned absent
C13_Witness ==
    /\ Searching("returned")
    /\ ~LookupFails(res.a[1], res.a[2])
    /\ res.val.max_time >= 2
    /\ res.val.day = res.val.max_time
    /\ res.val.ret = None

\* what next_time_in_sector returns when the scan window is used up
AbsentOnExhaustion == None

\* C14: a lookup failure and a search exhaustion are not conflated: what the
\* caller gets on an unknown body or sector differs from what it gets when
\* the scan window is used up, and in neither case is a time shown to the
\* user as the time found.
C14_FailuresNotConflated ==
    (res.op = "main_next" /\ ~IsSome(res.val.ret)) =>
        /\ ~IsSome(res.val.next_time_shown)
        /\ LookupFails(res.a[1], res.a[2]) => res.val.ret # AbsentOnExhaustion

\* C15: for an orbit with non-zero semi-major axis, current_mean_anomaly(0)
\* is the stored mean anomaly at epoch, neither propagated nor reduced
\* modulo a turn.
C15_EpochAnomalyUnchanged ==
    (/\ res.op = "current_mean_anomaly"
     /\ res.a[2] = 0
     /\ OrbitorAt(bodies[res.a[1]], 0).semimajor # 0) =>
        res.val = OrbitorAt(bodies[res.a[1]], 0).mae

\* the stored anomaly is past a full turn and comes back as stored
C15_Witness ==
    /\ res.op = "current_mean_anomaly"
    /\ res.a[2] = 0
    /\ OrbitorAt(bodies[res.a[1]], 0).semimajor # 0
    /\ res.val > TAU
    /\ res.val = OrbitorAt(bodies[res.a[1]], 0).mae

\* C16: an orbit with semi-major axis 0 reports mean anomaly 0 at every
\* time, the epoch included, whatever its mae, as an ordinary value.
C16_DegenerateAnomalyZero ==
    (/\ res.op = "current_mean_anomaly"
     /\ OrbitorAt(bodies[res.a[1]], res.a[2]).semimajor = 0) =>
        res.val = 0 /\ ~res.panic

C16_Witness ==
    /\ res.op = "current_mean_anomaly"
    /\ res.a[2] = 0
    /\ bodies[res.a[1]].kind = "Orbit"
    /\ bodies[res.a[1]].o.semimajor = 0
    /\ bodies[res.a[1]].o.mae # 0
    /\ res.val = 0

\* E - (E - e sin E - M) / (1 - e cos E)
NewtonUpdate(e, M, E) ==
    E - TDiv((E - TDiv(e * Sin(E), FP) - M) * FP, FP - TDiv(e * Cos(E), FP))

\* C17: eccentric_anomaly is five Newton-Raphson updates from E0 = M, for
\* every input, and it is 0 for M = 0 at every eccentricity below 1.
C17_FiveNewtonUpdates ==
    res.op = "eccentric_anomaly" =>
        LET e == res.val.e
            M == res.val.M
        IN  /\ res.val.E =
                 NewtonUpdate(e, M, NewtonUpdate(e, M, NewtonUpdate(e, M,
                     NewtonUpdate(e, M, NewtonUpdate(e, M, M)))))
            /\ M = 0 => res.val.E = 0

\* a near-parabolic orbit at mean anomaly 0
C17_Witness ==
    /\ res.op = "eccentric_anomaly"
    /\ res.val.M = 0
    /\ res.val.e = 999
    /\ res.val.E = 0

\* C18 as claimed: orbital_period(t) of a body that has a period is the same
\* for every t, for an Orbit body and for a Variable body alike.
C18_PeriodTimeInvariant ==
    (res.op = "orbital_period" /\ IsSome(res.val)) =>
        \A t \in Times : orbital_period(bodies, res.a[1], t) = res.val

\* the element functions of the body and of its ancestors return the same
\* mass, semi-major axis and parent at every time
ElementsFixed(id) ==
    \A k \in 1..Len(Chain(bodies, id)) :
        LET b == bodies[Chain(bodies, id)[k]]
        IN  b.kind = "Variable" =>
               \A t \in Times :
                  /\ CallF(b.f, t).mass = CallF(b.f, 0).mass
                  /\ CallF(b.f, t).semimajor = CallF(b.f, 0).semimajor
                  /\ CallF(b.f, t).parent = CallF(b.f, 0).parent

\* C18 as amended: orbital_period(t) is the same for every t when no element
\* function of the body or of an ancestor changes mass, semi-major axis or
\* parent with time.
C18_PeriodInvariantForFixedElements ==
    (res.op = "orbital_period" /\ ElementsFixed(res.a[1])) =>
        \A t \in Times : orbital_period(bodies, res.a[1], t) = res.val

\* a Variable body whose node and periapsis drift, asked away from the epoch
C18_Witness ==
    /\ res.op = "orbital_period"
    /\ bodies[res.a[1]].kind = "Variable"
    /\ bodies[res.a[1]].f.lanRate # 0
    /\ ElementsFixed(res.a[1])
    /\ res.a[2] # 0
    /\ IsSome(res.val)
    /\ res.val = orbital_period(bodies, res.a[1], 0)

\* the seconds from J2000 to the instant
SecondsSinceJ2000(dt) ==
    (dt.jd - J2000_datetime.jd) * SecondsPerDay + (dt.sod - J2000_datetime.sod)

\* C19: the conversion of an instant yields its offset from J2000 in
\* seconds: J2000 maps to 0, an instant d seconds after J2000 maps to d, and
\* distinct instants, two of one calendar day included, map to distinct
\* offsets.
C19_OffsetInSeconds ==
    res.op = "convert_datetime" =>
        /\ res.a[1] = J2000_datetime => res.val = 0
        /\ res.val = SecondsSinceJ2000(res.a[1]) * Second
        /\ \A other \in Instants :
              other # res.a[1] => convert_datetime(other) # res.val

\* radians (in thousandths) of an angle given in thousandths of a degree
RadiansOfDegrees(x) == TDiv(x * TAU, 360 * FP)

\* the Orbit body holds the elements of one of the inputs, its four angles
\* converted from degrees to radians
StoredFromDegrees(o) ==
    \E e \in OrbitInputs :
        o = [mass |-> e[1], parent |-> o.parent, semimajor |-> e[2],
             eccentricity |-> e[3],
             inclination |-> TDiv(e[4] * TAU, 360), lan |-> TDiv(e[5] * TAU, 360),
             aop |-> TDiv(e[6] * TAU, 360), mae |-> TDiv(e[7] * TAU, 360)]

\* the Orbitor the element function returns holds the four angles the
\* function was written with, converted from degrees to radians
ReturnedFromDegrees(f) ==
    /\ CallF(f, 0).mass = f.mass
    /\ CallF(f, 0).semimajor = f.semimajor
    /\ CallF(f, 0).eccentricity = f.eccentricity
    /\ CallF(f, 0).inclination = RadiansOfDegrees(f.inclination)
    /\ CallF(f, 0).lan = RadiansOfDegrees(f.lan)
    /\ CallF(f, 0).aop = RadiansOfDegrees(f.aop)
    /\ CallF(f, 0).mae = RadiansOfDegrees(f.mae)

OrbitsStoredInRadians ==
    \A i \in 1..Len(objects) :
        bodies[objects[i]].kind = "Orbit" => StoredFromDegrees(bodies[objects[i]].o)

\* C20: every orbiting body registered in a system holds its inclination,
\* node, periapsis and mean anomaly at epoch converted from the degrees given
\* to radians, and its mass, semi-major axis and eccentricity as given,
\* whether built by new_orbitor or returned by the element function of a
\* Variable body through Orbitor::new.
C20_AnglesStoredInRadians ==
    /\ OrbitsStoredInRadians
    /\ \A i \in 1..Len(objects) :
          bodies[objects[i]].kind = "Variable" =>
              ReturnedFromDegrees(bodies[objects[i]].f)

QueryOps ==
    {"orbital_period", "xyz", "xy", "angle_rad", "angle_deg", "trajectory_2d",
     "trajectory_3d", "trajectory_relative_2d", "trajectory_relative_3d"}

\* every query with its arguments, on the bodies built so far
Queries ==
    {<<op, <<id, t>>>> : op \in {"orbital_period", "xyz", "xy"}, id \in Ids, t \in Times}
    \cup {<<op, <<self, other, t>>>> :
            op \in {"angle_rad", "angle_deg"}, self \in Ids, other \in Ids, t \in Times}
    \cup {<<op, <<id, t, n>>>> :
            op \in {"trajectory_2d", "trajectory_3d"}, id \in Ids, t \in StartTimes,
            n \in 1..MaxPoints}
    \cup {<<op, <<self, other, t, n>>>> :
            op \in {"trajectory_relative_2d", "trajectory_relative_3d"},
            self \in Ids, other \in Ids, t \in StartTimes, n \in 1..MaxPoints}

\* the value a returned query holds is the one its arguments determine
AnswerOfArguments ==
    res.op \in QueryOps =>
        /\ res.val = Answer(bodies, res.op, res.a).val
        /\ res.panic = Answer(bodies, res.op, res.a).panic

\* a step of the program, whichever query or constructor it is, leaves the
\* answer of every query on the bodies built before it as it was; the answers
\* are computed from the bodies and the arguments alone, so they are compared
\* one by one only where the step has touched the bodies
StepKeepsAnswers ==
    \/ bodies' = bodies
    \/ \A q \in Queries : Answer(bodies', q[1], q[2]) = Answer(bodies, q[1], q[2])

\* C21: a query's answer is determined by its arguments and no step of the
\* program (a query of any kind, the construction of a further body, the
\* return of a result) changes the answer of any query: two calls with the
\* same arguments return the same result whatever was called in between.
C21_QueriesDeterministic ==
    /\ []AnswerOfArguments
    /\ [][StepKeepsAnswers]_vars

\* a position of a Variable body that orbits an Orbit body, away from the epoch,
\* returned in a system where the period of that body is also defined
C21_Witness ==
    /\ res.op = "xyz"
    /\ res.a[2] # 0
    /\ bodies[res.a[1]].kind = "Variable"
    /\ bodies[bodies[res.a[1]].f.parent].kind = "Orbit"
    /\ res.val # xyz(bodies, res.a[1], 0)
    /\ res.val = Answer(bodies, "xyz", res.a).val

\* M0 + t*n of the orbit o at `time`, before any reduction
UnreducedAnomaly(o, time) ==
    o.mae + Mul(time, MeanMotion(G * (o.mass + get_mass(bodies[o.parent])), o.semimajor))

\* C22 as stated: for a non-zero semi-major axis the mean anomaly at every
\* time is M0 + t*n reduced modulo a turn, a value of [0, 2*pi).
C22_AnomalyInFirstTurn ==
    (/\ res.op = "current_mean_anomaly"
     /\ OrbitorAt(bodies[res.a[1]], res.a[2]).semimajor # 0) =>
        LET x == UnreducedAnomaly(OrbitorAt(bodies[res.a[1]], res.a[2]), res.a[2])
        IN  /\ (x - res.val) % TAU = 0
            /\ 0 <= res.val /\ res.val < TAU

\* C22: for a non-zero semi-major axis the mean anomaly at t = 0 is M0 as
\* stored; at any other time it differs from M0 + t*n by whole turns, is less
\* than a turn in magnitude and has the sign of M0 + t*n: a value of [0, 2*pi)
\* when M0 + t*n >= 0 and of (-2*pi, 0] when M0 + t*n < 0.
C22_AnomalyTruncatedRemainder ==
    (/\ res.op = "current_mean_anomaly"
     /\ OrbitorAt(bodies[res.a[1]], res.a[2]).semimajor # 0) =>
        LET o == OrbitorAt(bodies[res.a[1]], res.a[2])
            x == UnreducedAnomaly(o, res.a[2])
        IN  IF res.a[2] = 0 THEN res.val = o.mae
            ELSE /\ (x - res.val) % TAU = 0
                 /\ Abs(res.val) < TAU
                 /\ x >= 0 => res.val >= 0
                 /\ x < 0 => res.val <= 0

\* a negative time at which M0 + t*n is negative: the anomaly returned is negative
C22_Witness ==
    /\ res.op = "current_mean_anomaly"
    /\ res.a[2] < 0
    /\ OrbitorAt(bodies[res.a[1]], res.a[2]).semimajor # 0
    /\ UnreducedAnomaly(OrbitorAt(bodies[res.a[1]], res.a[2]), res.a[2]) < 0
    /\ res.val < 0
    /\ res.val > -TAU

\* a time at which M0 + t*n is past a full turn and comes back reduced
C22_ReducedReached ==
    /\ res.op = "current_mean_anomaly"
    /\ res.a[2] # 0
    /\ OrbitorAt(bodies[res.a[1]], res.a[2]).semimajor # 0
    /\ UnreducedAnomaly(OrbitorAt(bodies[res.a[1]], res.a[2]), res.a[2]) >= TAU
    /\ res.val < TAU

\* the name of the i-th registered body
NameAt(i) == get_name(bodies[objects[i]])

\* the position in objects of the last body registered under `name`
LastAdded(name) ==
    CHOOSE i \in 1..Len(objects) :
        /\ NameAt(i) = name
        /\ \A j \in (i + 1)..Len(objects) : NameAt(j) # name

\* index has the names of the registered bodies as its keys, each mapped to
\* the body registered last under it
IndexMatchesObjects ==
    /\ DOMAIN index = {NameAt(i) : i \in 1..Len(objects)}
    /\ \A name \in DOMAIN index : index[name] = objects[LastAdded(name)]

NamesDistinct ==
    \A i, j \in 1..Len(objects) : NameAt(i) = NameAt(j) => i = j

SameSizeWhenDistinct ==
    NamesDistinct => Cardinality(DOMAIN index) = Len(objects)

\* a step that changes the registry is one add: it appends one body behind
\* the bodies registered before, which stay in their places
RegistryOnlyAppends ==
    (objects' # objects \/ index' # index) =>
        /\ Len(objects') = Len(objects) + 1
        /\ SubSeq(objects', 1, Len(objects)) = objects
        /\ objects'[Len(objects')] \in 1..Len(bodies)
        /\ index'[get_name(bodies[objects'[Len(objects')]])] = objects'[Len(objects')]

\* C23: objects is the sequence of added bodies in call order, add only
\* appends; the keys of index are exactly the names of the elements of
\* objects, each mapped to the body added last under that name; with pairwise
\* distinct names index and objects have the same size.
C23_RegistryConsistent ==
    /\ [](IndexMatchesObjects /\ SameSizeWhenDistinct)
    /\ [][RegistryOnlyAppends]_vars

\* three adds, two of them of different bodies under one name: index holds
\* the later one, and has one key fewer than objects has elements
C23_Witness ==
    /\ Len(objects) = 3
    /\ objects[1] # objects[3]
    /\ NameAt(1) = NameAt(3)
    /\ NameAt(2) # NameAt(1)
    /\ index[NameAt(1)] = objects[3]
    /\ Cardinality(DOMAIN index) = 2

\* three adds under pairwise distinct names
C23_DistinctReached ==
    /\ Len(objects) = 3
    /\ NamesDistinct
    /\ Cardinality(DOMAIN index) = 3

\* the sector half a turn from the named one
OppositeSector(sector_name) ==
    LET lo == CHOOSE k \in DOMAIN zodiac : zodiac[k] = sector_name
    IN  zodiac[(lo + 180) % 360]

\* C24: the sector the sign computation reports for the body at a time
\* returned by next_time_in_sector(body, sector, start) is that sector.
C24_SignAgreesWithSearch ==
    (Searching("returned") /\ IsSome(res.val.ret)) =>
        sector_for(res.a[1], res.val.ret[1]) = Some(res.a[2])

\* a search for Aries that returned a time at which the sign computation
\* reports the body in Libra
C24_OppositeReached ==
    /\ Searching("returned")
    /\ IsSome(res.val.ret)
    /\ res.a[2] = "Aries"
    /\ xy(bodies, res.val.body[1], res.val.ret[1]) # xy(bodies, zodiac_center, res.val.ret[1])
    /\ BearingInNamedSector(res.a[1], res.a[2], res.val.ret[1])
    /\ sector_for(res.a[1], res.val.ret[1]) = Some(OppositeSector(res.a[2]))

\* at every returned time at which the body is away from the reference body
\* the two computations are half a turn apart
C24_OppositeWhenApart ==
    (/\ Searching("returned")
     /\ IsSome(res.val.ret)
     /\ xy(bodies, res.val.body[1], res.val.ret[1])
            # xy(bodies, zodiac_center, res.val.ret[1])) =>
        sector_for(res.a[1], res.val.ret[1]) = Some(OppositeSector(res.a[2]))

=============================================================================
